---- MODULE Spec2Model ----
(* Model of send_emails.py: the spreadsheet extractor (parse_xlsx), the two  *)
(* transports (send_via_outlook, send_via_smtp) and the run loop (main).     *)
(* Python strings are sequences of one-character strings, so that strip(),   *)
(* lower(), upper(), "in" and concatenation are computed, not assumed.       *)
EXTENDS Naturals, Sequences, FiniteSets

(* ---------------- bounds ---------------- *)
MaxFiles == 2
MaxRows == 2

(* ---------------- strings ---------------- *)
UpperAlpha == <<"A","B","C","D","E","F","G","H","I","J","K","L","M",
                "N","O","P","Q","R","S","T","U","V","W","X","Y","Z">>
LowerAlpha == <<"a","b","c","d","e","f","g","h","i","j","k","l","m",
                "n","o","p","q","r","s","t","u","v","w","x","y","z">>

LowerChar(c) ==
    IF \E i \in 1..26 : UpperAlpha[i] = c
    THEN LowerAlpha[CHOOSE i \in 1..26 : UpperAlpha[i] = c]
    ELSE c

UpperChar(c) ==
    IF \E i \in 1..26 : LowerAlpha[i] = c
    THEN UpperAlpha[CHOOSE i \in 1..26 : LowerAlpha[i] = c]
    ELSE c

Lower(s) == [i \in 1..Len(s) |-> LowerChar(s[i])]
Upper(s) == [i \in 1..Len(s) |-> UpperChar(s[i])]

IsSpace(c) == c \in {" ", "\t", "\n"}

RECURSIVE LStrip(_)
LStrip(s) == IF s # <<>> /\ IsSpace(Head(s)) THEN LStrip(Tail(s)) ELSE s

RECURSIVE RStrip(_)
RStrip(s) ==
    IF s # <<>> /\ IsSpace(s[Len(s)]) THEN RStrip(SubSeq(s, 1, Len(s) - 1)) ELSE s

Strip(s) == RStrip(LStrip(s))

Contains(sub, s) ==
    \E i \in 0..Len(s) : i + Len(sub) <= Len(s) /\ SubSeq(s, i + 1, i + Len(sub)) = sub

(* ---------------- literals of the program ---------------- *)
kRITM == <<"R","I","T","M">>
kAIDE_ID == <<"A","I","D","E","_","I","D">>
kAIDE_NAME == <<"A","I","D","E"," ","N","A","M","E">>
kOwner == <<"A","p","p","l","i","c","a","t","i","o","n"," ","O","w","n","e","r">>
RequiredKeys == {kRITM, kAIDE_ID, kAIDE_NAME, kOwner}

sNan == <<"n","a","n">>
sOUTLOOK == <<"O","U","T","L","O","O","K">>
MissingMsg == <<"M","i","s","s","i","n","g"," ","r","e","q","u","i","r","e","d"," ",
                "f","i","e","l","d","s">>
SeeLog == <<"S","e","e"," ","l","o","g">>
EMAIL_DOMAIN == <<"y","o","u","r","c","o","m","p","a","n","y",".","c","o","m">>

(* ---------------- spreadsheet cells ---------------- *)
(* A cell of the DataFrame: na is pandas' "not available", otherwise s is    *)
(* str(cell).                                                                *)
NaCell == [na |-> TRUE, s |-> <<>>]
Str(s) == [na |-> FALSE, s |-> s]

(* ---------------- parse_xlsx ---------------- *)
RowKey(row) == IF ~row[1].na THEN Strip(row[1].s) ELSE <<>>
RowVal(row) == IF Len(row) > 1 /\ ~row[2].na THEN Strip(row[2].s) ELSE <<>>

EmptyData == [k \in {} |-> <<>>]
Get(d, k) == IF k \in DOMAIN d THEN d[k] ELSE <<>>
Put(d, k, v) == [x \in (DOMAIN d) \cup {k} |-> IF x = k THEN v ELSE d[x]]

RowStepFirstWins(d, row) ==
    LET key == RowKey(row)
        val == RowVal(row)
    IN IF key # <<>> /\ val # <<>> /\ Lower(val) \notin {sNan, <<>>} /\ key \notin DOMAIN d
       THEN Put(d, key, val)
       ELSE d

RowStep(d, row) ==
    LET key == RowKey(row)
        val == RowVal(row)
    IN IF key # <<>> /\ val # <<>> /\ Lower(val) \notin {sNan, <<>>}
       THEN Put(d, key, val)
       ELSE d

RECURSIVE BuildData(_, _)
BuildData(d, rows) ==
    IF rows = <<>> THEN d ELSE BuildData(RowStep(d, Head(rows)), Tail(rows))

AllPresentSkipsAideId(ritm, aide_id, aide_name, owner) ==
    ritm # <<>> /\ aide_name # <<>> /\ owner # <<>>

AllPresent(ritm, aide_id, aide_name, owner) ==
    ritm # <<>> /\ aide_id # <<>> /\ aide_name # <<>> /\ owner # <<>>

ResolveEmailAlwaysAppends(owner) == owner \o <<"@">> \o EMAIL_DOMAIN

ResolveEmail(owner) ==
    IF \E i \in 1..Len(owner) : owner[i] = "@"
    THEN owner
    ELSE owner \o <<"@">> \o EMAIL_DOMAIN

NoRecord == [some |-> FALSE]

ParseXlsx(name, doc) ==
    IF ~doc.readable THEN NoRecord
    ELSE LET data == BuildData(EmptyData, doc.rows)
             ritm == Get(data, kRITM)
             aide_id == Get(data, kAIDE_ID)
             aide_name == Get(data, kAIDE_NAME)
             app_owner_raw == Get(data, kOwner)
         IN IF ~AllPresent(ritm, aide_id, aide_name, app_owner_raw)
            THEN NoRecord
            ELSE [some |-> TRUE,
                  rec |-> [file |-> name, ritm |-> ritm, aide_id |-> aide_id,
                           aide_name |-> aide_name,
                           to_email |-> ResolveEmail(app_owner_raw)]]

(* ---------------- transports ---------------- *)
(* One invocation of a send function: via is the transport, to the address   *)
(* put on the message, mech the answer of the external mail mechanism        *)
(* (Outlook automation or the SMTP server), handed whether the message was   *)
(* given to it, image whether it carried the inline banner, raised whether   *)
(* the function ended by an exception instead of returning, ok its result.   *)
Attempt(rec, via, mech, handed, image, raised, ok) ==
    [file |-> rec.file, via |-> via, to |-> rec.to_email, mech |-> mech,
     handed |-> handed, image |-> image, raised |-> raised, ok |-> ok]

(* win32com import fails: return False. Attachments.Add of a banner that is  *)
(* not a readable file raises inside the try: return False. Any failure of   *)
(* Dispatch/CreateItem/Send: return False.                                   *)
send_via_outlook(rec, mech, w32, bnr) ==
    IF ~w32
    THEN [ok |-> FALSE, raised |-> FALSE,
          attempts |-> <<Attempt(rec, "OUTLOOK", mech, FALSE, FALSE, FALSE, FALSE)>>]
    ELSE IF bnr # "present" \/ mech # "ok"
    THEN [ok |-> FALSE, raised |-> FALSE,
          attempts |-> <<Attempt(rec, "OUTLOOK", mech, FALSE, FALSE, FALSE, FALSE)>>]
    ELSE [ok |-> TRUE, raised |-> FALSE,
          attempts |-> <<Attempt(rec, "OUTLOOK", mech, TRUE, TRUE, FALSE, TRUE)>>]

(* open(BANNER_PATH) is guarded by "except FileNotFoundError" only: any      *)
(* other error of open/read leaves send_via_smtp as an exception.            *)
send_via_smtp(rec, mech, bnr) ==
    IF bnr = "unreadable"
    THEN [ok |-> FALSE, raised |-> TRUE,
          attempts |-> <<Attempt(rec, "SMTP", mech, FALSE, FALSE, TRUE, FALSE)>>]
    ELSE IF mech # "ok"
    THEN [ok |-> FALSE, raised |-> FALSE,
          attempts |-> <<Attempt(rec, "SMTP", mech, FALSE, FALSE, FALSE, FALSE)>>]
    ELSE [ok |-> TRUE, raised |-> FALSE,
          attempts |-> <<Attempt(rec, "SMTP", mech, TRUE, bnr = "present", FALSE, TRUE)>>]

DispatchWithFallback(method, rec, mech, w32, bnr) ==
    IF Upper(method) = sOUTLOOK
    THEN LET o == send_via_outlook(rec, mech, w32, bnr)
         IN IF o.ok THEN o
            ELSE LET s == send_via_smtp(rec, mech, bnr)
                 IN [ok |-> s.ok, raised |-> s.raised,
                     attempts |-> o.attempts \o s.attempts]
    ELSE send_via_smtp(rec, mech, bnr)

Dispatch(method, rec, mech, w32, bnr) ==
    IF Upper(method) = sOUTLOOK
    THEN send_via_outlook(rec, mech, w32, bnr)
    ELSE send_via_smtp(rec, mech, bnr)

(* ---------------- outcomes ---------------- *)
SkippedOutcome(name) ==
    [file |-> name, ritm |-> <<>>, aide_id |-> <<>>, aide_name |-> <<>>,
     to_email |-> <<>>, status |-> "SKIPPED", error |-> MissingMsg]

SentOutcome(rec, ok) ==
    [file |-> rec.file, ritm |-> rec.ritm, aide_id |-> rec.aide_id,
     aide_name |-> rec.aide_name, to_email |-> rec.to_email,
     status |-> IF ok THEN "SENT" ELSE "FAILED",
     error |-> IF ok THEN <<>> ELSE SeeLog]

RecordSkipDropped(res, name) == res

RecordSkip(res, name) == Append(res, SkippedOutcome(name))

LoopNextBreaksOnFailure(ok) == IF ok THEN "loop" ELSE "write"

LoopNext(ok) == "loop"

CountStatus(res, s) == Cardinality({i \in 1..Len(res) : res[i].status = s})

SortedDescending(S) ==
    LET RECURSIVE Desc(_)
        Desc(T) == IF T = {} THEN <<>>
                   ELSE LET m == CHOOSE x \in T : \A y \in T : y <= x
                        IN <<m>> \o Desc(T \ {m})
    IN Desc(S)

Sorted(S) ==
    LET RECURSIVE Asc(_)
        Asc(T) == IF T = {} THEN <<>>
                  ELSE LET m == CHOOSE x \in T : \A y \in T : x <= y
                       IN <<m>> \o Asc(T \ {m})
    IN Asc(S)

(* ---------------- input documents of the run model ---------------- *)
vR1 == <<"R","E","Q","1">>
vA1 == <<"A","1","0","0">>
vN1 == <<"F","i","n"," ","A","p","p">>
vBare == <<"n","k","1","3">>
vAddr == <<"j","d","@","o",".","c">>

KV(k, v) == <<Str(k), Str(v)>>
Pad(s) == <<" ">> \o s \o <<" ", "\t">>

Doc(rows) == [readable |-> TRUE, rows |-> rows]
UnreadableDoc == [readable |-> FALSE, rows |-> <<>>]

DocBare == Doc(<<KV(kRITM, vR1), KV(kAIDE_ID, vA1), KV(kAIDE_NAME, vN1), KV(kOwner, vBare)>>)
DocAddr == Doc(<<KV(kRITM, vR1), KV(kAIDE_ID, vA1), KV(kAIDE_NAME, vN1), KV(kOwner, vAddr)>>)
DocPadded ==
    Doc(<<KV(Pad(kRITM), vA1), KV(kOwner, Pad(vBare)), <<NaCell, Str(vR1)>>,
          KV(kAIDE_NAME, Pad(vN1)), KV(kAIDE_ID, vA1), KV(kRITM, Pad(vR1)),
          <<Str(kRITM), NaCell>>>>)
DocNoRitmSpaceOwner ==
    Doc(<<KV(kAIDE_ID, vA1), KV(kAIDE_NAME, vN1), KV(kOwner, <<" ", " ">>)>>)
DocBlankAideId ==
    Doc(<<KV(kRITM, vR1), <<Str(kAIDE_ID), NaCell>>, KV(kAIDE_NAME, vN1), KV(kOwner, vAddr)>>)
DocNanName ==
    Doc(<<KV(kRITM, vR1), KV(kAIDE_ID, vA1), KV(kAIDE_NAME, <<"N","a","N">>), KV(kOwner, vBare)>>)

RunDocs == {UnreadableDoc, DocBare, DocAddr, DocPadded, DocNoRitmSpaceOwner, DocBlankAideId,
            DocNanName}

SendMethods == {sOUTLOOK, <<"o","u","t","l","o","o","k">>, <<"S","M","T","P">>}
BannerStates == {"present", "absent", "unreadable"}
MechResults == {"ok", "fail"}

(* ---------------- cells of the extractor model ---------------- *)
KeyCells == {NaCell, Str(kRITM), Str(Pad(kRITM)), Str(kAIDE_ID)}
ValCells == {NaCell, Str(vR1), Str(Pad(vA1)), Str(sNan), Str(<<"N","a","N"," ">>), Str(<<" ">>)}
RowsOfWidth(n) == IF n = 1 THEN {<<k>> : k \in KeyCells}
                  ELSE {<<k, v>> : k \in KeyCells, v \in ValCells}
Frames == UNION {[1..n -> RowsOfWidth(w)] : n \in 0..MaxRows, w \in {1, 2}}

(* ---------------- state ---------------- *)
VARIABLES
    dir,          \* names of the *.xlsx files in INPUT_DIR (a name is a number, ordered as sorted() orders paths)
    content,      \* name -> what pd.read_excel gives for that file
    SEND_METHOD,  \* cfg.SEND_METHOD
    win32,        \* whether "import win32com.client" succeeds
    banner,       \* state of BANNER_PATH on disk
    pc,           \* position of main
    xlsx_files,   \* main's sorted list
    idx,          \* position of the for loop in xlsx_files
    record,       \* result of parse_xlsx for the current file
    results,      \* main's results list
    parseLog,     \* files handed to parse_xlsx so far ("Processing: ..." lines)
    sendLog,      \* invocations of the send functions so far
    csv,          \* the results file written by write_csv_log
    summary,      \* the counts of the "Done" line
    df,           \* extractor model: rows of the DataFrame
    rowIdx,       \* extractor model: next row of the iterrows loop
    data,         \* extractor model: the lookup dict
    fields        \* extractor model: the four data.get results

vars == <<dir, content, SEND_METHOD, win32, banner, pc, xlsx_files, idx, record,
          results, parseLog, sendLog, csv, summary, df, rowIdx, data, fields>>

envVars == <<dir, content, SEND_METHOD, win32, banner>>
runVars == <<pc, xlsx_files, idx, record, results, parseLog, sendLog, csv, summary>>
extVars == <<df, rowIdx, data, fields>>

NoCsv == [written |-> FALSE, rows |-> <<>>]
NoSummary == [reported |-> FALSE, sent |-> 0, failed |-> 0, skipped |-> 0]
NoFields == [done |-> FALSE, ritm |-> <<>>, aide_id |-> <<>>, aide_name |-> <<>>,
             app_owner_raw |-> <<>>]

RunIdle ==
    /\ xlsx_files = <<>>
    /\ idx = 1
    /\ record = NoRecord
    /\ results = <<>>
    /\ parseLog = <<>>
    /\ sendLog = <<>>
    /\ csv = NoCsv
    /\ summary = NoSummary

ExtIdle ==
    /\ df = <<>>
    /\ rowIdx = 1
    /\ data = EmptyData
    /\ fields = NoFields

(* ---------------- main ---------------- *)
Init ==
    /\ dir \in SUBSET (1..MaxFiles)
    /\ content \in [dir -> RunDocs]
    /\ SEND_METHOD \in SendMethods
    /\ win32 \in BOOLEAN
    /\ banner \in BannerStates
    /\ pc = "start"
    /\ RunIdle
    /\ ExtIdle

\* lines 337-344: list, sort, return at once when nothing was found
Start ==
    /\ pc = "start"
    /\ xlsx_files' = Sorted(dir)
    /\ pc' = IF Sorted(dir) = <<>> THEN "done" ELSE "loop"
    /\ UNCHANGED <<idx, record, results, parseLog, sendLog, csv, summary>>
    /\ UNCHANGED envVars
    /\ UNCHANGED extVars

\* lines 346-353: parse_xlsx gave None
ParseSkip ==
    /\ pc = "loop"
    /\ idx <= Len(xlsx_files)
    /\ ~ParseXlsx(xlsx_files[idx], content[xlsx_files[idx]]).some
    /\ parseLog' = Append(parseLog, xlsx_files[idx])
    /\ results' = RecordSkip(results, xlsx_files[idx])
    /\ idx' = idx + 1
    /\ UNCHANGED <<pc, xlsx_files, record, sendLog, csv, summary>>
    /\ UNCHANGED envVars
    /\ UNCHANGED extVars

\* lines 346-349: parse_xlsx gave a record
ParseOk ==
    /\ pc = "loop"
    /\ idx <= Len(xlsx_files)
    /\ ParseXlsx(xlsx_files[idx], content[xlsx_files[idx]]).some
    /\ parseLog' = Append(parseLog, xlsx_files[idx])
    /\ record' = ParseXlsx(xlsx_files[idx], content[xlsx_files[idx]])
    /\ pc' = "send"
    /\ UNCHANGED <<xlsx_files, idx, results, sendLog, csv, summary>>
    /\ UNCHANGED envVars
    /\ UNCHANGED extVars

\* lines 355-362: the send function returned
Send ==
    /\ pc = "send"
    /\ \E mech \in MechResults :
          LET r == Dispatch(SEND_METHOD, record.rec, mech, win32, banner)
          IN /\ ~r.raised
             /\ sendLog' = sendLog \o r.attempts
             /\ results' = Append(results, SentOutcome(record.rec, r.ok))
             /\ pc' = LoopNext(r.ok)
    /\ idx' = idx + 1
    /\ record' = NoRecord
    /\ UNCHANGED <<xlsx_files, parseLog, csv, summary>>
    /\ UNCHANGED envVars
    /\ UNCHANGED extVars

\* lines 355-358: the send function raised; nothing in main catches it
SendRaises ==
    /\ pc = "send"
    /\ \E mech \in MechResults :
          LET r == Dispatch(SEND_METHOD, record.rec, mech, win32, banner)
          IN /\ r.raised
             /\ sendLog' = sendLog \o r.attempts
    /\ pc' = "crashed"
    /\ UNCHANGED <<xlsx_files, idx, record, results, parseLog, csv, summary>>
    /\ UNCHANGED envVars
    /\ UNCHANGED extVars

\* line 346: the for loop is exhausted
LoopEnd ==
    /\ pc = "loop"
    /\ idx > Len(xlsx_files)
    /\ pc' = "write"
    /\ UNCHANGED <<xlsx_files, idx, record, results, parseLog, sendLog, csv, summary>>
    /\ UNCHANGED envVars
    /\ UNCHANGED extVars

\* line 364
WriteCsvLog ==
    /\ pc = "write"
    /\ csv' = [written |-> TRUE, rows |-> results]
    /\ pc' = "report"
    /\ UNCHANGED <<xlsx_files, idx, record, results, parseLog, sendLog, summary>>
    /\ UNCHANGED envVars
    /\ UNCHANGED extVars

\* lines 365-368
ReportCounts ==
    /\ pc = "report"
    /\ summary' = [reported |-> TRUE,
                   sent |-> CountStatus(results, "SENT"),
                   failed |-> CountStatus(results, "FAILED"),
                   skipped |-> CountStatus(results, "SKIPPED")]
    /\ pc' = "done"
    /\ UNCHANGED <<xlsx_files, idx, record, results, parseLog, sendLog, csv>>
    /\ UNCHANGED envVars
    /\ UNCHANGED extVars

Next ==
    \/ Start
    \/ ParseSkip
    \/ ParseOk
    \/ Send
    \/ SendRaises
    \/ LoopEnd
    \/ WriteCsvLog
    \/ ReportCounts

Spec == Init /\ [][Next]_vars

(* ---------------- the extractor on its own ---------------- *)
ExtInit ==
    /\ dir = {}
    /\ content = [n \in {} |-> UnreadableDoc]
    /\ SEND_METHOD = sOUTLOOK
    /\ win32 = TRUE
    /\ banner = "present"
    /\ pc = "rows"
    /\ RunIdle
    /\ df \in Frames
    /\ rowIdx = 1
    /\ data = EmptyData
    /\ fields = NoFields

\* lines 68-72: one iteration of the iterrows loop
ParseRow ==
    /\ pc = "rows"
    /\ rowIdx <= Len(df)
    /\ data' = RowStep(data, df[rowIdx])
    /\ rowIdx' = rowIdx + 1
    /\ UNCHANGED <<df, fields>>
    /\ UNCHANGED envVars
    /\ UNCHANGED runVars

\* lines 74-77: the four lookups
ParseFields ==
    /\ pc = "rows"
    /\ rowIdx > Len(df)
    /\ fields' = [done |-> TRUE, ritm |-> Get(data, kRITM), aide_id |-> Get(data, kAIDE_ID),
                  aide_name |-> Get(data, kAIDE_NAME), app_owner_raw |-> Get(data, kOwner)]
    /\ pc' = "fields"
    /\ UNCHANGED <<df, rowIdx, data>>
    /\ UNCHANGED envVars
    /\ UNCHANGED <<xlsx_files, idx, record, results, parseLog, sendLog, csv, summary>>

ExtNext ==
    \/ ParseRow
    \/ ParseFields

ExtSpec == ExtInit /\ [][ExtNext]_vars

(* ================= properties ================= *)
(* What the rows of a sheet say, stated without the loop of parse_xlsx.      *)
NormVal(row) == IF Lower(RowVal(row)) = sNan THEN <<>> ELSE RowVal(row)

KeysOf(rows) == {RowKey(rows[i]) : i \in 1..Len(rows)} \ {<<>>}

\* the value of the last row that carries key k, blank and "nan" read as empty
LastSeen(rows, k) ==
    LET I == {i \in 1..Len(rows) : RowKey(rows[i]) = k}
    IN IF I = {} THEN <<>>
       ELSE NormVal(rows[CHOOSE i \in I : \A j \in I : j <= i])

\* the value of the last row that carries key k together with a value
LastGiven(rows, k) ==
    LET I == {i \in 1..Len(rows) : RowKey(rows[i]) = k /\ NormVal(rows[i]) # <<>>}
    IN IF I = {} THEN <<>>
       ELSE RowVal(rows[CHOOSE i \in I : \A j \in I : j <= i])

MissingOf(doc) == {k \in RequiredKeys : LastGiven(doc.rows, k) = <<>>}
LacksField(n) == content[n].readable /\ MissingOf(content[n]) # {}
Valid(n) == content[n].readable /\ MissingOf(content[n]) = {}

AttemptsFor(n) == {i \in 1..Len(sendLog) : sendLog[i].file = n}
OutcomesFor(n) == {i \in 1..Len(results) : results[i].file = n}

\* the i-th name of the directory in ascending order
NthName(i) == CHOOSE n \in dir : Cardinality({m \in dir : m < n}) = i - 1

FieldLabels(k) ==
    IF k = kRITM THEN {kRITM, <<"t","i","c","k","e","t","_","i","d">>}
    ELSE IF k = kAIDE_ID THEN {kAIDE_ID, <<"c","a","s","e","_","i","d">>}
    ELSE IF k = kAIDE_NAME THEN {kAIDE_NAME, <<"A","I","D","E","_","N","A","M","E">>,
                                 <<"c","a","s","e","_","n","a","m","e">>}
    ELSE {kOwner, <<"O","w","n","e","r">>, <<"o","w","n","e","r">>}

NamesField(k, text) == \E l \in FieldLabels(k) : Contains(l, text)

HasAt(s) == Contains(<<"@">>, s)
OwnerOf(n) == LastGiven(content[n].rows, kOwner)
ExpectedAddress(n) ==
    IF HasAt(OwnerOf(n)) THEN OwnerOf(n) ELSE OwnerOf(n) \o <<"@">> \o EMAIL_DOMAIN

\* C2: the address of a materialized record is the owner string itself when
\* it contains "@" and owner + "@" + EMAIL_DOMAIN otherwise; the send function
\* receives that address and the outcome carries it.
C2_Recipient ==
    /\ record.some => record.rec.to_email = ExpectedAddress(record.rec.file)
    /\ \A i \in 1..Len(sendLog) : sendLog[i].to = ExpectedAddress(sendLog[i].file)
    /\ \A i \in 1..Len(results) :
          results[i].status # "SKIPPED" =>
              results[i].to_email = ExpectedAddress(results[i].file)

C2_Witness ==
    /\ pc = "done"
    /\ \E i \in 1..Len(results) :
          /\ results[i].status = "SENT"
          /\ results[i].to_email = vAddr
          /\ \E a \in AttemptsFor(results[i].file) : sendLog[a].to = vAddr
    /\ \E i \in 1..Len(results) :
          /\ results[i].status = "SENT"
          /\ results[i].to_email = vBare \o <<"@">> \o EMAIL_DOMAIN

\* C3: when main has returned, there is one outcome per input document, every
\* status is SENT, FAILED or SKIPPED, and the counts of the "Done" line add up
\* to the number of outcomes (the line is written whenever there was input).
C3_Counts ==
    pc = "done" =>
        /\ Len(results) = Cardinality(dir)
        /\ \A i \in 1..Len(results) : results[i].status \in {"SENT", "FAILED", "SKIPPED"}
        /\ dir # {} => summary.reported
        /\ summary.reported =>
              summary.sent + summary.failed + summary.skipped = Len(results)

C3_Witness ==
    /\ pc = "done"
    /\ summary.reported
    /\ Len(results) = 2
    /\ summary.skipped = 1
    /\ summary.failed = 1

\* C4: a send function returning failure does not stop the loop: once the loop
\* is over every document has been extracted and has its own outcome, every
\* valid one has had its send, FAILED stands exactly on the documents whose
\* send returned failure and SENT on those whose send returned success.
C4_FailureContinues ==
    /\ pc \in {"write", "report", "done"} /\ xlsx_files # <<>> =>
          \A n \in dir :
             /\ \E i \in 1..Len(parseLog) : parseLog[i] = n
             /\ Cardinality(OutcomesFor(n)) = 1
             /\ Valid(n) => AttemptsFor(n) # {}
    /\ \A i \in 1..Len(results) :
          /\ results[i].status = "FAILED" =>
                /\ AttemptsFor(results[i].file) # {}
                /\ \A a \in AttemptsFor(results[i].file) : ~sendLog[a].ok
          /\ results[i].status = "SENT" =>
                /\ AttemptsFor(results[i].file) # {}
                /\ \A a \in AttemptsFor(results[i].file) : sendLog[a].ok /\ sendLog[a].handed

C4_Witness ==
    /\ pc = "done"
    /\ Len(results) = 2
    /\ results[1].status = "FAILED"
    /\ results[2].status = "SENT"

\* C5 (as stated): the outcome of a document that cannot be opened is SKIPPED
\* with an error value different from the one of a document that opens but
\* lacks required fields.
C5_DistinctErrors ==
    \A i \in 1..Len(results) : \A j \in 1..Len(results) :
        (~content[results[i].file].readable /\ LacksField(results[j].file)) =>
            /\ results[i].status = "SKIPPED"
            /\ results[i].error # results[j].error

\* C6 (as stated): a run that has ended has written the results file and
\* reported the counts, whatever the input set (the empty one included) and
\* whatever the extraction, banner and transport results were.
C6_EndsWithSummary ==
    pc \in {"done", "crashed"} => csv.written /\ summary.reported

SelectedVia ==
    IF SEND_METHOD \in {sOUTLOOK, <<"o","u","t","l","o","o","k">>} THEN "OUTLOOK" ELSE "SMTP"

\* C7: a document has at most one invocation of a send function in a run, and
\* it goes through the transport SEND_METHOD selects: no retry, no fallback to
\* the other transport.
C7_SingleAttempt ==
    /\ \A i \in 1..Len(sendLog) : \A j \in 1..Len(sendLog) :
          sendLog[i].file = sendLog[j].file => i = j
    /\ \A i \in 1..Len(sendLog) : sendLog[i].via = SelectedVia

C7_Witness ==
    /\ pc = "done"
    /\ ~win32
    /\ \E i \in 1..Len(sendLog) :
          /\ sendLog[i].via = "OUTLOOK"
          /\ ~sendLog[i].ok
          /\ \E r \in OutcomesFor(sendLog[i].file) : results[r].status = "FAILED"
    /\ Len(sendLog) = 2

\* C8 (as stated): with the banner file absent, a send whose handoff otherwise
\* succeeds hands the message off without the image and is recorded SENT, under
\* either transport.
C8_BannerAbsentSameOutcome ==
    banner = "absent" =>
        \A i \in 1..Len(sendLog) :
            (sendLog[i].mech = "ok" /\ (sendLog[i].via = "OUTLOOK" => win32)) =>
                /\ sendLog[i].handed
                /\ ~sendLog[i].image
                /\ sendLog[i].ok
                /\ \A r \in OutcomesFor(sendLog[i].file) : results[r].status = "SENT"

Seen == SubSeq(df, 1, rowIdx - 1)

\* C9 (as stated): the lookup gives every key the value of the last row that
\* carries the key, blank and "nan" values read as empty; a required field is
\* present exactly when that last value is non-empty.
C9_Original ==
    /\ \A k \in KeysOf(Seen) : Get(data, k) = LastSeen(Seen, k)
    /\ fields.done =>
          /\ (fields.ritm # <<>>) <=> (LastSeen(df, kRITM) # <<>>)
          /\ (fields.aide_id # <<>>) <=> (LastSeen(df, kAIDE_ID) # <<>>)

\* C9 (amended): the lookup gives every key the trimmed value of the last row
\* that carries the key together with a value that is neither blank nor "nan"
\* (any case); rows with such a value missing leave the lookup untouched; a
\* required field is present exactly when some row gives it such a value.
C9_LastGivenWins ==
    /\ \A k \in KeysOf(Seen) : Get(data, k) = LastGiven(Seen, k)
    /\ DOMAIN data = {k \in KeysOf(Seen) : LastGiven(Seen, k) # <<>>}
    /\ fields.done =>
          /\ fields.ritm = LastGiven(df, kRITM)
          /\ fields.aide_id = LastGiven(df, kAIDE_ID)
          /\ fields.aide_name = <<>>
          /\ fields.app_owner_raw = <<>>

C9_Witness ==
    /\ fields.done
    /\ Len(df) >= 2
    /\ \E i \in 1..Len(df) : \E j \in 1..Len(df) :
          /\ i < j
          /\ RowKey(df[i]) = kRITM
          /\ RowKey(df[j]) = kRITM
          /\ df[i][1] # df[j][1]
          /\ NormVal(df[i]) # <<>>
          /\ NormVal(df[j]) # <<>>
          /\ RowVal(df[i]) # RowVal(df[j])
          /\ fields.ritm = RowVal(df[j])

C10_Prefix ==
    /\ Len(results) <= Cardinality(dir)
    /\ \A i \in 1..Len(results) : results[i].file = NthName(i)
    /\ Len(parseLog) \in {Len(results), Len(results) + 1}
    /\ Len(parseLog) <= Cardinality(dir)
    /\ \A i \in 1..Len(parseLog) : parseLog[i] = NthName(i)
    /\ csv.written => csv.rows = results

\* C10: at every point of a run the outcomes recorded so far are one outcome
\* for each of the first k documents of the sorted listing, in that order, and
\* none for a later one; the next document is handed to the extractor only
\* when all earlier ones have their outcome; a recorded outcome is never
\* changed or removed.
C10_OrderedAppendOnly ==
    /\ []C10_Prefix
    /\ [][/\ Len(results') >= Len(results)
          /\ SubSeq(results', 1, Len(results)) = results]_vars

C10_Witness ==
    /\ pc = "send"
    /\ Len(results) = 1
    /\ Len(parseLog) = 2
    /\ results[1].file = 1
    /\ parseLog[2] = 2
====
